---- MODULE Spec2Model ----
(***************************************************************************)
(* Model of the meeting pipeline orchestrator (cluster/full_pipeline.py)   *)
(* and of the adapters it drives.  Text files are sequences of one-        *)
(* character strings, so that formatting a ledger line and parsing it back *)
(* are two different computations.                                         *)
(***************************************************************************)
EXTENDS Integers, Sequences, FiniteSets, TLC

(***************************************************************************)
(* Bounds of the model.                                                    *)
(***************************************************************************)
MaxRuns == 2
MaxOverride == 2
MaxLedgerLines == 3

(***************************************************************************)
(* Python values.                                                          *)
(***************************************************************************)
\* An optional value is a sequence of length 0 or 1.
None == <<>>
Some(v) == <<v>>

\* str: a sequence of one-character strings.
NL == "\n"
SP == " "
Whitespace == {SP, NL}
DigitChars == <<"0", "1", "2", "3", "4", "5", "6", "7", "8", "9">>
DigitSet == {DigitChars[i] : i \in 1..10}

DigitVal(c) == CHOOSE d \in 0..9 : DigitChars[d + 1] = c

\* str(n) for a natural number n.
RECURSIVE NatStr(_)
NatStr(n) == IF n < 10 THEN <<DigitChars[n + 1]>>
             ELSE NatStr(n \div 10) \o <<DigitChars[(n % 10) + 1]>>

\* str(n), the rendering an f-string gives "{meeting_number}".
IntStr(n) == IF n < 0 THEN <<"-">> \o NatStr(0 - n) ELSE NatStr(n)

\* s.strip(): leading and trailing whitespace removed.
RECURSIVE LStrip(_)
LStrip(s) == IF s # <<>> /\ Head(s) \in Whitespace THEN LStrip(Tail(s)) ELSE s

RECURSIVE RStrip(_)
RStrip(s) == IF s # <<>> /\ s[Len(s)] \in Whitespace
             THEN RStrip(SubSeq(s, 1, Len(s) - 1)) ELSE s

Strip(s) == RStrip(LStrip(s))

\* s.find(sep): the first index at which sep occurs in s, 0 when absent.
Find(s, sep) ==
    LET hits == {i \in 1..(Len(s) - Len(sep) + 1) :
                    SubSeq(s, i, i + Len(sep) - 1) = sep}
    IN IF hits = {} THEN 0 ELSE CHOOSE i \in hits : \A j \in hits : i <= j

\* sep in s
Contains(s, sep) == Find(s, sep) # 0

\* s.split(sep), for a non-empty separator: never an empty list.
RECURSIVE Split(_, _)
Split(s, sep) ==
    LET i == Find(s, sep)
    IN IF i = 0 THEN <<s>>
       ELSE <<SubSeq(s, 1, i - 1)>> \o Split(SubSeq(s, i + Len(sep), Len(s)), sep)

\* The digits-and-underscores body int() accepts: digits, with single
\* underscores only between two digits.
IsIntBody(b) ==
    /\ b # <<>>
    /\ \A i \in 1..Len(b) : b[i] \in DigitSet \cup {"_"}
    /\ b[1] # "_" /\ b[Len(b)] # "_"
    /\ \A i \in 1..(Len(b) - 1) : ~(b[i] = "_" /\ b[i + 1] = "_")

RECURSIVE BodyVal(_, _)
BodyVal(b, acc) ==
    IF b = <<>> THEN acc
    ELSE IF Head(b) = "_" THEN BodyVal(Tail(b), acc)
    ELSE BodyVal(Tail(b), 10 * acc + DigitVal(Head(b)))

\* int(s): surrounding whitespace ignored, an optional sign, then digits.
\* Some(value), or None where Python raises ValueError.
PyInt(s) ==
    LET t == Strip(s)
        signed == t # <<>> /\ Head(t) \in {"-", "+"}
        body == IF signed THEN Tail(t) ELSE t
    IN IF ~IsIntBody(body) THEN None
       ELSE IF signed /\ Head(t) = "-" THEN Some(0 - BodyVal(body, 0))
       ELSE Some(BodyVal(body, 0))

(***************************************************************************)
(* cluster/full_pipeline.py: the ledger (youtube_links.txt).               *)
(***************************************************************************)
\* What a path holds: NoFile when it does not exist, else File(content).
NoFile == <<>>
File(content) == <<content>>

SEP == <<SP, "-", SP>>

\* Variant: the last number is returned without the increment.
get_next_meeting_number_no_increment(file) ==
    IF file = NoFile THEN 1
    ELSE LET lines == Split(Strip(file[1]), <<NL>>)
         IN IF lines = <<<<>>>> THEN 1
            ELSE LET last_line == Strip(lines[Len(lines)])
                     last_num == IF Contains(last_line, SEP)
                                 THEN PyInt(Split(last_line, SEP)[1])
                                 ELSE None
                 IN IF last_num # None THEN last_num[1]
                    ELSE Len(lines) + 1

\* Variant: the first line is parsed instead of the last.
get_next_meeting_number_first_line(file) ==
    IF file = NoFile THEN 1
    ELSE LET lines == Split(Strip(file[1]), <<NL>>)
         IN IF lines = <<<<>>>> THEN 1
            ELSE LET last_line == Strip(lines[1])
                     last_num == IF Contains(last_line, SEP)
                                 THEN PyInt(Split(last_line, SEP)[1])
                                 ELSE None
                 IN IF last_num # None THEN last_num[1] + 1
                    ELSE Len(lines) + 1

\* Variant: the line count is used even when the last line parses.
get_next_meeting_number_line_count(file) ==
    IF file = NoFile THEN 1
    ELSE LET lines == Split(Strip(file[1]), <<NL>>)
         IN IF lines = <<<<>>>> THEN 1 ELSE Len(lines) + 1

\* get_next_meeting_number(), as a function of what YOUTUBE_LINKS_FILE holds.
\* Variant: when the last line cannot be parsed the number of lines is
\* returned as it is.
get_next_meeting_number_fallback_count(file) ==
    IF file = NoFile THEN 1
    ELSE LET lines == Split(Strip(file[1]), <<NL>>)
         IN IF lines = <<<<>>>> THEN 1
            ELSE LET last_line == Strip(lines[Len(lines)])
                     last_num == IF Contains(last_line, SEP)
                                 THEN PyInt(Split(last_line, SEP)[1])
                                 ELSE None
                 IN IF last_num # None THEN last_num[1] + 1
                    ELSE Len(lines)

get_next_meeting_number(file) ==
    IF file = NoFile THEN 1
    ELSE LET lines == Split(Strip(file[1]), <<NL>>)
         IN IF lines = <<<<>>>> THEN 1
            ELSE LET last_line == Strip(lines[Len(lines)])
                     last_num == IF Contains(last_line, SEP)
                                 THEN PyInt(Split(last_line, SEP)[1])
                                 ELSE None
                 IN IF last_num # None THEN last_num[1] + 1
                    ELSE Len(lines) + 1

\* Variant: the line is written without its newline.
LedgerLine_no_newline(meeting_number, youtube_url) ==
    IntStr(meeting_number) \o SEP \o youtube_url

\* The line append_youtube_link writes: f"{meeting_number} - {youtube_url}\n".
LedgerLine(meeting_number, youtube_url) ==
    IntStr(meeting_number) \o SEP \o youtube_url \o <<NL>>

\* Variant: the file is opened with "w" and so truncated.
append_youtube_link_truncates(file, meeting_number, youtube_url) ==
    File(LedgerLine(meeting_number, youtube_url))

\* append_youtube_link: open(..., "a") creates the file when it is absent.
append_youtube_link(file, meeting_number, youtube_url) ==
    File((IF file = NoFile THEN <<>> ELSE file[1])
         \o LedgerLine(meeting_number, youtube_url))

(***************************************************************************)
(* Names and texts the orchestrator builds.                                *)
(***************************************************************************)
MEETING_ == <<"m", "e", "e", "t", "i", "n", "g", "_">>
WATCH_URL == <<"h", "t", "t", "p", "s", ":", "/", "/", "w", "w", "w", ".", "y", "o", "u", "t", "u", "b", "e", ".", "c", "o", "m", "/", "w", "a", "t", "c", "h", "?", "v", "=">>
TITLE_ == <<"S", "p", "o", "t", "k", "a", "n", "i", "e", " ", "S", "K", "N", "W", "P", "L", " ", "#">>

\* f"meeting_{meeting_number}_{date}", the run's directory under results/.
OutputDirName(meeting_number, date) ==
    MEETING_ \o IntStr(meeting_number) \o <<"_">> \o date

\* f"Spotkanie SKNWPL #{meeting_number} - {date}"
Title(meeting_number, date) ==
    TITLE_ \o IntStr(meeting_number) \o SEP \o date

\* generate_meeting_description: the lines of the description, joined by
\* newlines; a section is left out when its text is empty.
generate_meeting_description(date, agenda, highlights, transcript_link) ==
    LET parts ==
            <<<<"Nagranie spotkania Sekcji Kola Naukowego z dnia ">> \o date \o <<".">>,
              <<>>>>
            \o (IF agenda # <<>> THEN <<<<"AGENDA:">>, agenda, <<>>>> ELSE <<>>)
            \o (IF highlights # <<>>
                THEN <<<<"NAJWAZNIEJSZE PUNKTY:">>, highlights, <<>>>> ELSE <<>>)
            \o (IF transcript_link # <<>>
                THEN <<<<"Pelny transkrypt: ">> \o transcript_link, <<>>>> ELSE <<>>)
            \o <<<<"---">>,
                 <<"Automatycznie wygenerowane przez SKNWPL Meetings System">>>>
        join[i \in 0..Len(parts)] ==
            IF i = 0 THEN <<>>
            ELSE IF i = 1 THEN parts[1] ELSE join[i - 1] \o <<NL>> \o parts[i]
    IN join[Len(parts)]

\* upload_video: f"https://www.youtube.com/watch?v={video_id}"
VideoUrl(video_id) == WATCH_URL \o video_id

\* "meeting_number or get_next_meeting_number()": None and 0 are falsy.
IntOr(arg, default) == IF arg # None /\ arg[1] # 0 THEN arg[1] ELSE default

\* "date or datetime.now().strftime(...)": None and "" are falsy.
StrOr(arg, default) == IF arg # None /\ arg[1] # <<>> THEN arg[1] ELSE default

(***************************************************************************)
(* Inputs and environment.                                                 *)
(***************************************************************************)
DATE_A == <<"2", "0", "2", "6", "-", "1", "1", "-", "0", "5">>
DATE_B == <<"2", "0", "2", "6", "-", "1", "1", "-", "1", "2">>

\* Operators (terminals) that can invoke the pipeline.
Procs == {1, 2}

\* --meeting-number: absent, or an integer.
MeetingNumberArgs == {None} \cup {Some(n) : n \in 0..MaxOverride}
\* --date: absent, or a date.
DateArgs == {None, Some(DATE_A)}
\* What datetime.now().strftime("%Y-%m-%d") can give.
Clock == {DATE_B}
\* The stem of the audio path (Path(audio_path).stem).
AudioStems == {"rec"}
\* What the speech engine returns for the recording of the k-th invocation:
\* every invocation has its own recording.
EngineResult(k) == <<"t">> \o NatStr(k)
\* The id the hosting API gives the k-th video it accepts: never one twice.
VideoId(k) == <<"i", "d", "-">> \o NatStr(k)
VideoIds == {VideoId(k) : k \in 1..MaxRuns}

\* File names in a run's output directory.
JsonName(stem) == <<stem, "_transcript.json">>
TxtName(stem) == <<stem, "_transcript.txt">>
PlainName(stem) == <<stem, "_plain.txt">>
VideoName(stem) == <<stem, ".mp4">>
LinkName == <<"", "youtube_link.txt">>

EmptyDir == [name \in {} |-> <<>>]

(***************************************************************************)
(* The publish adapter (upload_youtube.py) and the commands that call it.  *)
(***************************************************************************)
MaxChunks == 2

\* --privacy choices=["public", "private", "unlisted"]
PrivacyChoices == {"public", "private", "unlisted"}

\* A keyword parameter, or an argparse option, with a default value.
Param(arg, default) == IF arg = None THEN default ELSE arg[1]

EntryPoints == {"upload_video", "run_full_pipeline", "full_pipeline.py",
                "upload_youtube.py", "meeting.py upload"}

\* Variant: the upload command of meeting.py defaults to public.
PrivacyPassed_public_default(entry, arg) ==
    IF entry = "upload_video" THEN arg
    ELSE IF entry = "meeting.py upload" THEN Some(Param(arg, "public"))
    ELSE Some(Param(arg, "unlisted"))

\* The privacy_status argument upload_video receives when the caller enters
\* at entry and says arg about visibility.
PrivacyPassed(entry, arg) ==
    CASE entry = "upload_video" -> arg
      [] entry = "run_full_pipeline" -> Some(Param(arg, "unlisted"))
      [] entry = "full_pipeline.py" ->
             Some(Param(Some(Param(arg, "unlisted")), "unlisted"))
      [] entry = "upload_youtube.py" -> Some(Param(arg, "unlisted"))
      [] entry = "meeting.py upload" -> Some(Param(arg, "unlisted"))

\* Files the adapter and its callers know by name.
LEDGER_FILE == "youtube_links.txt"
MARKER_FILE == "youtube_link.txt"
VIDEO_FILE == "video.mp4"
CREDENTIALS_DIR == "credentials"
GITIGNORE == "credentials/.gitignore"
CLIENT_SECRETS_FILE == "credentials/client_secrets.json"
TOKEN_FILE == "credentials/youtube_token.pickle"

\* What youtube_token.pickle can hold: credentials that are valid, expired
\* with a refresh token, or expired without one.
TokenStates == {"valid", "expired+refresh_token", "expired"}

\* A file system: the files that exist, with their contents.
YtFiles(video, dir, gitignore, secrets, token) ==
    LET names == {LEDGER_FILE, MARKER_FILE}
                 \cup (IF video THEN {VIDEO_FILE} ELSE {})
                 \cup (IF dir THEN {CREDENTIALS_DIR} ELSE {})
                 \cup (IF dir /\ gitignore THEN {GITIGNORE} ELSE {})
                 \cup (IF dir /\ secrets THEN {CLIENT_SECRETS_FILE} ELSE {})
                 \cup (IF dir /\ token # None THEN {TOKEN_FILE} ELSE {})
    IN [n \in names |->
           IF n = TOKEN_FILE THEN token[1]
           ELSE IF n = GITIGNORE THEN "*\n!.gitignore\n"
           ELSE n]

YtFileStates ==
    {YtFiles(video, dir, gitignore, secrets, token) :
        video \in BOOLEAN, dir \in BOOLEAN, gitignore \in BOOLEAN,
        secrets \in BOOLEAN, token \in {None} \cup {Some(t) : t \in TokenStates}}

\* setup_credentials_dir: mkdir(exist_ok=True), .gitignore written if absent.
setup_credentials_dir(files) ==
    LET made == IF CREDENTIALS_DIR \in DOMAIN files THEN files
                ELSE (CREDENTIALS_DIR :> CREDENTIALS_DIR) @@ files
    IN IF GITIGNORE \in DOMAIN made THEN made
       ELSE (GITIGNORE :> "*\n!.gitignore\n") @@ made

\* Variant: the token is pickled into the marker file.
save_token_into_marker(files) == (MARKER_FILE :> "valid") @@ files

\* open(TOKEN_FILE, "wb"); pickle.dump(credentials, token): the credentials
\* are valid by then.
save_token(files) == (TOKEN_FILE :> "valid") @@ files

NoYt ==
    [pc |-> "idle", entry |-> "upload_video", arg |-> None, privacy_status |-> "",
     sent |-> None, files |-> YtFiles(FALSE, FALSE, FALSE, FALSE, None),
     before |-> YtFiles(FALSE, FALSE, FALSE, FALSE, None),
     interactive |-> FALSE, libs |-> "none", raised |-> "", video_id |-> None,
     chunks |-> 0, requests |-> 0, progress |-> 0, errors |-> 0,
     returned |-> None]

(***************************************************************************)
(* The encoder (audio_to_video.py).                                        *)
(***************************************************************************)
MaxReturnCode == 2

\* What process.returncode can be: 0, an exit status, or minus a signal number.
ReturnCodes == {-MaxReturnCode} \cup (0..MaxReturnCode)

NOT_INSTALLED == <<"FFmpeg nie jest zainstalowany!">>

\* Variant: the message does not say with what code the encoder exited.
FFmpegError_without_code(returncode) == <<"FFmpeg zakonczyl sie bledem">>

\* f"FFmpeg zakończył się błędem: {process.returncode}"
FFmpegError(returncode) == <<"FFmpeg zakonczyl sie bledem: ">> \o IntStr(returncode)

OUT_DIR == "out"
\* output_path: the one given (in OUT_DIR), or audio_path.with_suffix(".mp4").
OutputPath(output_given) == IF output_given THEN "out/video.mp4" ELSE "in/audio.mp4"
\* output_path.parent
Parent(path) == IF path = "out/video.mp4" THEN OUT_DIR ELSE "in"

NoEnc ==
    [pc |-> "idle", ffmpeg |-> FALSE, audio |-> FALSE, image |-> FALSE,
     output_given |-> FALSE, paths |-> {"in"}, before |-> {"in"},
     checked |-> FALSE, popen |-> 0, returncode |-> None, raised |-> <<>>,
     returned |-> None]

(***************************************************************************)
(* The transcription adapter (transcription.py).                           *)
(***************************************************************************)
MaxSegments == 2

Pad2(n) == IF n < 10 THEN <<"0">> \o NatStr(n) ELSE NatStr(n)

\* A float number of seconds: its whole part and its fraction, the fraction
\* counted in tenths of a microsecond (floats finer than timedelta's resolution
\* can then be told apart). Seconds(n) is the float n.0.
Seconds(n) == [whole |-> n, fraction |-> 0]

\* int(timedelta(seconds=seconds).total_seconds()): timedelta keeps whole
\* microseconds, rounding to the nearest one (ties to even); int() truncates.
TimedeltaSeconds(seconds) ==
    LET q == seconds.fraction \div 10
        r == seconds.fraction % 10
        microseconds == IF r > 5 \/ (r = 5 /\ q % 2 = 1) THEN q + 1 ELSE q
    IN seconds.whole + microseconds \div 1000000

\* format_timestamp(seconds), for a float seconds >= 0.
format_timestamp(seconds) ==
    LET hours == TimedeltaSeconds(seconds) \div 3600
        remainder == TimedeltaSeconds(seconds) % 3600
    IN Pad2(hours) \o <<":">> \o Pad2(remainder \div 60) \o <<":">> \o Pad2(remainder % 60)

\* detect_device: ("cuda", "float16") with a CUDA GPU, else ("cpu", "int8").
detect_device(cuda) == IF cuda THEN <<"cuda", "float16">> ELSE <<"cpu", "int8">>

\* get_optimal_settings(device, available_ram_gb): psutil is None when the
\* package is not installed, else Some(what virtual_memory().available gives, in
\* GB), which then replaces the argument; without it the argument counts, and
\* 4 GB is assumed when the argument is None or 0.
get_optimal_settings(device, available_ram_gb, psutil) ==
    LET ram == IF psutil # None THEN psutil[1] ELSE IntOr(available_ram_gb, 4)
    IN IF device = "cuda"
       THEN [model_size |-> "medium", compute_type |-> "float16", batch_size |-> 8,
             beam_size |-> 5, cpu_threads |-> 4]
       ELSE IF ram >= 4
       THEN [model_size |-> "small", compute_type |-> "int8", batch_size |-> 8,
             beam_size |-> 5, cpu_threads |-> 0]
       ELSE [model_size |-> "small", compute_type |-> "int8", batch_size |-> 1,
             beam_size |-> 5, cpu_threads |-> 0]

\* arg or default, for a name (a device, a model, a precision): None and ""
\* are falsy.
NameOr(arg, default) == IF arg # None /\ arg[1] # "" THEN arg[1] ELSE default

\* Variant: an unspecified precision is the one detect_device returned, not the
\* Advisor's for the resolved device.
EngineSettings_detected_compute(device, model_size, compute_type, batch_size, cuda, psutil) ==
    LET resolved == NameOr(device, detect_device(cuda)[1])
        optimal == get_optimal_settings(resolved, None, psutil)
        batch == Param(batch_size, optimal.batch_size)
    IN [device |-> resolved,
        model_size |-> NameOr(model_size, optimal.model_size),
        compute_type |-> NameOr(compute_type, detect_device(cuda)[2]),
        batch_size |-> batch, beam_size |-> optimal.beam_size,
        cpu_threads |-> optimal.cpu_threads, batched |-> batch > 1]

\* transcribe_with_faster_whisper: what the engine is built and run with.
\* device, model_size, compute_type and batch_size are the caller's arguments
\* (None when left out); batched is whether BatchedInferencePipeline is used.
EngineSettings(device, model_size, compute_type, batch_size, cuda, psutil) ==
    LET resolved == NameOr(device, detect_device(cuda)[1])
        optimal == get_optimal_settings(resolved, None, psutil)
        batch == Param(batch_size, optimal.batch_size)
    IN [device |-> resolved,
        model_size |-> NameOr(model_size, optimal.model_size),
        compute_type |-> NameOr(compute_type, optimal.compute_type),
        batch_size |-> batch, beam_size |-> optimal.beam_size,
        cpu_threads |-> optimal.cpu_threads, batched |-> batch > 1]

\* Variant: the precision and the batch size are forced for any device given.
transcript_kwargs_forced(model, device) ==
    [model_size |-> Some(Param(model, "large-v3")),
     device |-> IF device # None /\ device[1] # "" THEN device ELSE None,
     compute_type |-> IF device # None /\ device[1] # "" THEN Some("float16") ELSE None,
     batch_size |-> IF device # None /\ device[1] # "" THEN Some(16) ELSE None]

\* run_full_pipeline, lines 98-108: the arguments it passes on to
\* transcribe_with_faster_whisper (None: not passed). model is its parameter
\* with the default "large-v3".
transcript_kwargs(model, device) ==
    [model_size |-> Some(Param(model, "large-v3")),
     device |-> IF device # None /\ device[1] # "" THEN device ELSE None,
     compute_type |-> IF device = Some("cuda") THEN Some("float16") ELSE None,
     batch_size |-> IF device = Some("cuda") THEN Some(16) ELSE None]

\* Texts an engine can give a segment, before they are stripped.
STAMPED == <<"a", NL, NL, "[", "[">> \o format_timestamp(Seconds(1)) \o <<"]", "]", NL, "b">>
RawTexts == {<<>>, <<"a">>, <<SP, "a">>, <<"b">>, STAMPED}

\* What an engine returns: up to MaxSegments segments, one per second (the
\* recording's duration is then their number).
RawSegments ==
    UNION {{[i \in 1..k |-> [start |-> i - 1, end |-> i, text |-> texts[i]]] :
               texts \in [1..k -> RawTexts]} : k \in 0..MaxSegments}

\* The loop over the engine's segments: seg_data.
TranscriptSegments(raw) ==
    [i \in 1..Len(raw) |->
        [start |-> raw[i].start, end |-> raw[i].end, text |-> Strip(raw[i].text),
         start_formatted |-> format_timestamp(Seconds(raw[i].start)),
         end_formatted |-> format_timestamp(Seconds(raw[i].end))]]

\* " ".join(parts)
RECURSIVE JoinWith(_, _)
JoinWith(sep, parts) ==
    IF parts = <<>> THEN <<>>
    ELSE IF Len(parts) = 1 THEN parts[1]
    ELSE parts[1] \o sep \o JoinWith(sep, Tail(parts))

\* transcribe_with_openai: result (full_text is response.text, the service's
\* own concatenation of what it heard).
OpenAIResult(raw, language) ==
    [audio_file |-> "audio", language |-> language, duration |-> Len(raw),
     duration_formatted |-> format_timestamp(Seconds(Len(raw))),
     segments |-> TranscriptSegments(raw),
     full_text |-> JoinWith(<<>>, [i \in 1..Len(raw) |-> raw[i].text])]

\* transcribe_with_faster_whisper: result.
LocalResult(raw, language, device, settings) ==
    [audio_file |-> "audio", language |-> language, duration |-> Len(raw),
     duration_formatted |-> format_timestamp(Seconds(Len(raw))),
     model |-> settings.model_size, device |-> device,
     compute_type |-> settings.compute_type,
     segments |-> TranscriptSegments(raw),
     full_text |-> JoinWith(<<SP>>, [i \in 1..Len(raw) |->
                                        TranscriptSegments(raw)[i].text])]

\* The timestamped text file: f"[[{start_formatted}]]\n", f"{text}\n\n".
TimestampedText(segments) ==
    JoinWith(<<>>, [i \in 1..Len(segments) |->
        <<"[", "[">> \o segments[i].start_formatted \o <<"]", "]", NL>>
        \o segments[i].text \o <<NL, NL>>])

\* The three files written from a result.
Artifacts(result) ==
    [json |-> result, txt |-> TimestampedText(result.segments),
     plain |-> result.full_text]

\* Variant: the environment's key is preferred to the argument.
KeyOr_environment_first(api_key, environment) ==
    IF environment # None /\ environment[1] # "" THEN environment ELSE api_key

\* api_key or os.environ.get("OPENAI_API_KEY"): None and "" are falsy.
KeyOr(api_key, environment) ==
    IF api_key # None /\ api_key[1] # "" THEN api_key ELSE environment

NoTr ==
    [pc |-> "idle", method |-> "local", api_key |-> None, environment |-> None,
     faster_whisper |-> FALSE, openai |-> FALSE, audio |-> FALSE,
     key_used |-> None, engine_called |-> FALSE, dir_made |-> FALSE,
     raised |-> <<>>, raw |-> <<>>, result |-> None, files |-> None]

\* No helper function has been called on its own.
NoFn == [name |-> "none", given |-> <<>>, result |-> <<>>]

VARIABLES
    ledger,     \* YOUTUBE_LINKS_FILE: NoFile or File(text)
    results,    \* PROJECT_ROOT/results: directory name -> (file name -> content)
    pc,         \* per operator: where its invocation of run_full_pipeline stands
    args,       \* per operator: the arguments of its current invocation
    frame,      \* per operator: the locals of its current invocation
    raised,     \* per operator: the exception that left run_full_pipeline
    returned,   \* per operator: the summary run_full_pipeline returned
    events,     \* per operator: stage calls and their outcomes, in order
    hist,       \* per operator: files at the start of the run, files it wrote
    published,  \* the urls of the videos the hosting platform holds, in order
    started,    \* invocations so far
    succeeded,  \* invocations that returned a summary
    all_auto,   \* no invocation so far passed a meeting number
    in_order,   \* every meeting number passed so far exceeded the last entry's
    yt,         \* a call of upload_video made on its own: position, arguments, files
    enc,        \* a call of create_video_from_audio made on its own
    tr,         \* a call of transcribe made on its own
    fn          \* a helper function called on its own: name, arguments, result

\* The state of the adapters called on their own.
adapters == <<yt, enc, tr, fn>>

vars == <<ledger, results, pc, args, frame, raised, returned, events, hist,
          published, started, succeeded, all_auto, in_order, adapters>>

\* No adapter is being called on its own.
AdaptersAtRest == yt = NoYt /\ enc = NoEnc /\ tr = NoTr /\ fn = NoFn

NoArgs == [meeting_number |-> None, date |-> None, stem |-> "rec"]
NoFrame == [meeting_number |-> 0, date |-> <<>>, youtube_url |-> None]
NoHist == [ledger |-> NoFile, link |-> NoFile, wrote |-> {}]

\* output_dir, as a directory name under results/.
output_dir(p) == OutputDirName(frame[p].meeting_number, frame[p].date)

\* What results/<dir>/<name> holds.
ReadFile(fs, dir, name) ==
    IF dir \in DOMAIN fs /\ name \in DOMAIN fs[dir]
    THEN File(fs[dir][name]) ELSE NoFile

\* Variant: the directory is made anew, empty, when it exists already.
Mkdir_recreates(fs, dir) == (dir :> EmptyDir) @@ fs

\* mkdir(parents=True, exist_ok=True)
Mkdir(fs, dir) == IF dir \in DOMAIN fs THEN fs ELSE (dir :> EmptyDir) @@ fs

\* open(path, "w") / write_text: create or replace.
WriteFile(fs, dir, name, content) ==
    LET d == Mkdir(fs, dir)
    IN [d EXCEPT ![dir] = (name :> content) @@ d[dir]]

(***************************************************************************)
(* Reading the ledger back, entry by entry (used to state properties).     *)
(***************************************************************************)
Text(file) == IF file = NoFile THEN <<>> ELSE file[1]

\* The lines of a text; a final newline ends the last line.
Lines(text) ==
    LET parts == Split(text, <<NL>>)
    IN IF parts[Len(parts)] = <<>> THEN SubSeq(parts, 1, Len(parts) - 1) ELSE parts

\* The number each ledger line carries: Some(n), or None when it has none.
EntryNumbers(file) ==
    LET ls == Lines(Text(file))
    IN [i \in 1..Len(ls) |->
           IF Contains(ls[i], SEP) THEN PyInt(Split(ls[i], SEP)[1]) ELSE None]

StrictlyIncreasing(ns) ==
    /\ \A i \in 1..Len(ns) : ns[i] # None
    /\ \A i \in 1..(Len(ns) - 1) : ns[i][1] < ns[i + 1][1]

\* n is greater than the number of the ledger's last entry, if there is one.
ExceedsLast(n, file) ==
    LET ns == EntryNumbers(file)
    IN ns = <<>> \/ (ns[Len(ns)] # None /\ n > ns[Len(ns)][1])

IsPrefix(s, t) == Len(s) <= Len(t) /\ SubSeq(t, 1, Len(s)) = s

Init ==
    /\ ledger \in {NoFile, File(<<>>)}
    /\ results = [dir \in {} |-> EmptyDir]
    /\ pc = [p \in Procs |-> "idle"]
    /\ args = [p \in Procs |-> NoArgs]
    /\ frame = [p \in Procs |-> NoFrame]
    /\ raised = [p \in Procs |-> <<>>]
    /\ returned = [p \in Procs |-> None]
    /\ events = [p \in Procs |-> <<>>]
    /\ hist = [p \in Procs |-> NoHist]
    /\ published = <<>>
    /\ started = 0
    /\ succeeded = 0
    /\ all_auto = TRUE
    /\ in_order = TRUE
    /\ AdaptersAtRest

Idle(p) == pc[p] \in {"idle", "done", "failed"}

\* Variant: a run that finds a transcript on disk goes on from the encoding.
Start_resumes(p) ==
    /\ UNCHANGED adapters
    /\ Idle(p)
    /\ started < MaxRuns
    /\ \E mn \in MeetingNumberArgs, d \in DateArgs, now \in Clock,
          stem \in AudioStems :
        LET date == StrOr(d, now)
            meeting_number == IntOr(mn, get_next_meeting_number(ledger))
            dir == OutputDirName(meeting_number, date)
        IN /\ args' = [args EXCEPT ![p] =
                          [meeting_number |-> mn, date |-> d, stem |-> stem]]
           /\ frame' = [frame EXCEPT ![p] =
                          [meeting_number |-> meeting_number, date |-> date,
                           youtube_url |-> None]]
           /\ results' = Mkdir(results, dir)
           /\ hist' = [hist EXCEPT ![p] =
                          [ledger |-> ledger,
                           link |-> ReadFile(results, dir, LinkName),
                           wrote |-> {}]]
           /\ all_auto' = (all_auto /\ mn = None)
           /\ in_order' = (in_order /\ (mn = None \/ ExceedsLast(mn[1], ledger)))
    /\ pc' = [pc EXCEPT ![p] =
                IF ReadFile(results, OutputDirName(frame'[p].meeting_number,
                                                   frame'[p].date),
                            TxtName(args'[p].stem)) # NoFile
                THEN "encode" ELSE "transcribe"]
    /\ raised' = [raised EXCEPT ![p] = <<>>]
    /\ returned' = [returned EXCEPT ![p] = None]
    /\ events' = [events EXCEPT ![p] = <<>>]
    /\ started' = started + 1
    /\ UNCHANGED <<ledger, published, succeeded>>

\* run_full_pipeline, lines 77-83: resolve date and number, create the
\* output directory.
Start(p) ==
    /\ UNCHANGED adapters
    /\ Idle(p)
    /\ started < MaxRuns
    /\ \E mn \in MeetingNumberArgs, d \in DateArgs, now \in Clock,
          stem \in AudioStems :
        LET date == StrOr(d, now)
            meeting_number == IntOr(mn, get_next_meeting_number(ledger))
            dir == OutputDirName(meeting_number, date)
        IN /\ args' = [args EXCEPT ![p] =
                          [meeting_number |-> mn, date |-> d, stem |-> stem]]
           /\ frame' = [frame EXCEPT ![p] =
                          [meeting_number |-> meeting_number, date |-> date,
                           youtube_url |-> None]]
           /\ results' = Mkdir(results, dir)
           /\ hist' = [hist EXCEPT ![p] =
                          [ledger |-> ledger,
                           link |-> ReadFile(results, dir, LinkName),
                           wrote |-> {}]]
           /\ all_auto' = (all_auto /\ mn = None)
           /\ in_order' = (in_order /\ (mn = None \/ ExceedsLast(mn[1], ledger)))
    /\ pc' = [pc EXCEPT ![p] = "transcribe"]
    /\ raised' = [raised EXCEPT ![p] = <<>>]
    /\ returned' = [returned EXCEPT ![p] = None]
    /\ events' = [events EXCEPT ![p] = <<>>]
    /\ started' = started + 1
    /\ UNCHANGED <<ledger, published, succeeded>>

\* Variant: the exception is swallowed and the run goes on with the next
\* statement.
Raise_swallowed(p, stage, exc) ==
    /\ pc' = [pc EXCEPT ![p] = IF stage = "transcription" THEN "encode"
                                ELSE IF stage = "encoding" THEN "upload"
                                ELSE "failed"]
    /\ events' = [events EXCEPT ![p] = @ \o <<<<"call", stage>>, <<"raise", stage>>>>]
    /\ UNCHANGED <<ledger, args, frame, raised, returned, published, started,
                   succeeded, all_auto, in_order>>

\* Variant: the link is recorded although the stage failed.
Raise_records_link(p, stage, exc) ==
    /\ pc' = [pc EXCEPT ![p] = "failed"]
    /\ raised' = [raised EXCEPT ![p] = <<stage, exc>>]
    /\ events' = [events EXCEPT ![p] = @ \o <<<<"call", stage>>, <<"raise", stage>>>>]
    /\ ledger' = append_youtube_link(ledger, frame[p].meeting_number, <<>>)
    /\ UNCHANGED <<args, frame, returned, published, started, succeeded, all_auto,
                   in_order>>

\* An exception leaves the stage and, run_full_pipeline having no handler,
\* leaves run_full_pipeline.
Raise(p, stage, exc) ==
    /\ pc' = [pc EXCEPT ![p] = "failed"]
    /\ raised' = [raised EXCEPT ![p] = <<stage, exc>>]
    /\ events' = [events EXCEPT ![p] = @ \o <<<<"call", stage>>, <<"raise", stage>>>>]
    /\ UNCHANGED <<ledger, args, frame, returned, published, started, succeeded,
                   all_auto, in_order>>

\* Variant: the stage is entered again after it returned.
Return_reenters(p, stage, next_pc) ==
    /\ pc' = pc
    /\ events' = [events EXCEPT ![p] = @ \o <<<<"call", stage>>, <<"return", stage>>>>]
    /\ UNCHANGED <<args, raised, started, all_auto, in_order>>

\* The stage returned; the next statement is at next_pc.
Return(p, stage, next_pc) ==
    /\ pc' = [pc EXCEPT ![p] = next_pc]
    /\ events' = [events EXCEPT ![p] = @ \o <<<<"call", stage>>, <<"return", stage>>>>]
    /\ UNCHANGED <<args, raised, started, all_auto, in_order>>

\* Files the run has written so far.
Wrote(p, files) ==
    hist' = [hist EXCEPT ![p].wrote =
                {w \in @ : \A f \in files : w[1] # f[1]} \cup files]

\* The three artifacts of a transcription result.
TranscriptFiles(stem, result) ==
    {<<JsonName(stem), <<"json">> \o result>>,
     <<TxtName(stem), <<"txt">> \o result>>,
     <<PlainName(stem), <<"plain">> \o result>>}

RECURSIVE WriteFiles(_, _, _)
WriteFiles(fs, dir, files) ==
    IF files = {} THEN fs
    ELSE LET f == CHOOSE f \in files : TRUE
         IN WriteFiles(WriteFile(fs, dir, f[1], f[2]), dir, files \ {f})

\* STEP 1: transcribe_with_faster_whisper(audio_path, output_dir=output_dir).
Transcribe(p) ==
    /\ UNCHANGED adapters
    /\ pc[p] = "transcribe"
    /\ \E installed \in BOOLEAN, audio_exists \in BOOLEAN,
          engine_ok \in BOOLEAN :
        IF ~installed THEN
            Raise(p, "transcription", "ImportError") /\ UNCHANGED <<results, hist>>
        ELSE IF ~audio_exists THEN
            Raise(p, "transcription", "FileNotFoundError") /\ UNCHANGED <<results, hist>>
        ELSE IF ~engine_ok THEN
            /\ Raise(p, "transcription", "EngineError")
            /\ results' = Mkdir(results, output_dir(p))
            /\ UNCHANGED hist
        ELSE
            LET files == TranscriptFiles(args[p].stem, EngineResult(started))
            IN /\ results' = WriteFiles(results, output_dir(p), files)
               /\ Wrote(p, files)
               /\ Return(p, "transcription", "encode")
               /\ UNCHANGED <<ledger, frame, returned, published, succeeded>>

\* Variant: the output directory is emptied when the encoder fails.
EncoderFailed_cleans_up(fs, dir, part, partial) == (dir :> EmptyDir) @@ fs

\* What a failing encoder process leaves: the output directory exists, the
\* output file may have been started; nothing else is touched.
EncoderFailed(fs, dir, part, partial) ==
    IF partial THEN WriteFiles(fs, dir, part) ELSE Mkdir(fs, dir)

\* STEP 2: create_video_from_audio(audio_path, BACKGROUND_IMAGE, video_path).
\* ffmpeg runs with -y, so a failing encoder may leave a partial file; after
\* a zero exit the duration probe (ffprobe) can still raise.
CreateVideo(p) ==
    /\ UNCHANGED adapters
    /\ pc[p] = "encode"
    /\ \E ffmpeg \in BOOLEAN, audio_exists \in BOOLEAN, image_exists \in BOOLEAN,
          returncode \in {0, 1}, partial \in BOOLEAN, probe_ok \in BOOLEAN :
        LET name == VideoName(args[p].stem)
            whole == {<<name, <<"mp4", args[p].stem>>>>}
            part == {<<name, <<"mp4", "partial">>>>}
        IN IF ~ffmpeg THEN
               Raise(p, "encoding", "RuntimeError") /\ UNCHANGED <<results, hist>>
           ELSE IF ~audio_exists \/ ~image_exists THEN
               Raise(p, "encoding", "FileNotFoundError") /\ UNCHANGED <<results, hist>>
           ELSE IF returncode # 0 THEN
               /\ Raise(p, "encoding", "RuntimeError")
               /\ results' = EncoderFailed(results, output_dir(p), part, partial)
               /\ UNCHANGED hist
           ELSE IF ~probe_ok THEN
               /\ Raise(p, "encoding", "ValueError")
               /\ results' = WriteFiles(results, output_dir(p), whole)
               /\ UNCHANGED hist
           ELSE
               /\ results' = WriteFiles(results, output_dir(p), whole)
               /\ Wrote(p, whole)
               /\ Return(p, "encoding", "upload")
               /\ UNCHANGED <<ledger, frame, returned, published, succeeded>>

\* STEP 3: upload_video(video_path, title, description, tags, privacy), then
\* youtube_url = upload_result["url"].
Upload(p) ==
    /\ UNCHANGED adapters
    /\ pc[p] = "upload"
    /\ \E client_lib \in BOOLEAN, secrets \in BOOLEAN,
          api_ok \in BOOLEAN :
        IF ~client_lib THEN
            Raise(p, "upload", "ImportError") /\ UNCHANGED <<results, hist>>
        ELSE IF ReadFile(results, output_dir(p), VideoName(args[p].stem)) = NoFile
                \/ ~secrets THEN
            Raise(p, "upload", "FileNotFoundError") /\ UNCHANGED <<results, hist>>
        ELSE IF ~api_ok THEN
            Raise(p, "upload", "HttpError") /\ UNCHANGED <<results, hist>>
        ELSE
            LET video_id == VideoId(Len(published) + 1)
            IN /\ published' = Append(published, VideoUrl(video_id))
               /\ frame' = [frame EXCEPT ![p].youtube_url = Some(VideoUrl(video_id))]
               /\ Return(p, "upload", "append")
               /\ UNCHANGED <<ledger, results, hist, returned, succeeded>>

\* Variant: the entry is appended only when the ledger has none with the
\* run's number yet.
AppendLink_if_new(p) ==
    /\ UNCHANGED adapters
    /\ pc[p] = "append"
    /\ ledger' = IF Some(frame[p].meeting_number) \in
                        {EntryNumbers(ledger)[i] : i \in 1..Len(EntryNumbers(ledger))}
                 THEN ledger
                 ELSE append_youtube_link(ledger, frame[p].meeting_number,
                                          frame[p].youtube_url[1])
    /\ Return(p, "append", "link")
    /\ UNCHANGED <<results, frame, returned, hist, published, succeeded>>

\* STEP 4, first half: append_youtube_link(meeting_number, youtube_url).
AppendLink(p) ==
    /\ UNCHANGED adapters
    /\ pc[p] = "append"
    /\ ledger' = append_youtube_link(ledger, frame[p].meeting_number,
                                     frame[p].youtube_url[1])
    /\ Return(p, "append", "link")
    /\ UNCHANGED <<results, frame, returned, hist, published, succeeded>>

\* The record run_full_pipeline returns.
Summary(p) ==
    [meeting_number |-> frame[p].meeting_number,
     youtube_url |-> frame[p].youtube_url[1],
     video_path |-> <<output_dir(p), VideoName(args[p].stem)>>,
     transcript_path |-> <<output_dir(p), TxtName(args[p].stem)>>,
     output_dir |-> output_dir(p)]

\* Variant: the write of youtube_link.txt raises after the ledger was appended.
WriteLinkFile_raises(p) ==
    /\ UNCHANGED adapters
    /\ pc[p] = "link"
    /\ pc' = [pc EXCEPT ![p] = "failed"]
    /\ raised' = [raised EXCEPT ![p] = <<"link", "OSError">>]
    /\ UNCHANGED <<ledger, results, args, frame, returned, events, hist, published,
                   started, succeeded, all_auto, in_order>>

\* STEP 4, second half: link_file.write_text(youtube_url), then the summary
\* is returned.
WriteLinkFile(p) ==
    /\ UNCHANGED adapters
    /\ pc[p] = "link"
    /\ results' = WriteFile(results, output_dir(p), LinkName, frame[p].youtube_url[1])
    /\ returned' = [returned EXCEPT ![p] = Some(Summary(p))]
    /\ pc' = [pc EXCEPT ![p] = "done"]
    /\ succeeded' = succeeded + 1
    /\ UNCHANGED <<ledger, args, frame, raised, events, hist, published, started,
                   all_auto, in_order>>

\* meeting.py upload <video>: cmd_upload uploads a video that is on disk and
\* writes the url into youtube_link.txt next to it. It is a command of its own:
\* the operator's previous command has ended.
cmd_upload(p) ==
    /\ UNCHANGED adapters
    /\ Idle(p)
    /\ started < MaxRuns
    /\ \E dir \in DOMAIN results, stem \in AudioStems :
        /\ ReadFile(results, dir, VideoName(stem)) # NoFile
        /\ LET url == VideoUrl(VideoId(Len(published) + 1))
           IN /\ published' = Append(published, url)
              /\ results' = WriteFile(results, dir, LinkName, url)
    /\ pc' = [pc EXCEPT ![p] = "idle"]
    /\ raised' = [raised EXCEPT ![p] = <<>>]
    /\ returned' = [returned EXCEPT ![p] = None]
    /\ events' = [events EXCEPT ![p] = <<>>]
    /\ started' = started + 1
    /\ UNCHANGED <<ledger, args, frame, hist, succeeded, all_auto, in_order>>

\* One operator: invocations follow one another.
Operator == CHOOSE p \in Procs : \A q \in Procs : p <= q

Next ==
    \/ Start(Operator)
    \/ Transcribe(Operator)
    \/ CreateVideo(Operator)
    \/ Upload(Operator)
    \/ AppendLink(Operator)
    \/ WriteLinkFile(Operator)
    \/ cmd_upload(Operator)

Spec == Init /\ [][Next]_vars

(***************************************************************************)
(* get_next_meeting_number on ledgers an operator may have edited by hand: *)
(* the ledger starts as any text of up to MaxLedgerLines sample lines.     *)
(***************************************************************************)
EXAMPLE_URL == <<"h", "t", "t", "p", "s", ":", "/", "/", "e", "x", "a", "m", "p", "l", "e", ".", "c", "o", "m", "/", "v", "7">>

SampleNumbers == {3, 12}

\* Lines of the form "<n> - <url>".
EntryLines == {IntStr(7) \o SEP \o EXAMPLE_URL}
              \cup {IntStr(n) \o SEP \o VideoUrl(VideoId(1)) : n \in SampleNumbers}

\* Lines that are not of that form.
OtherLines == {<<>>, <<"x">>, <<"7">>, <<"7", SP, "-">>, <<"x", SP, "-", SP, "u">>,
               <<"7", "-", "u">>}

SampleLines == EntryLines \cup OtherLines

RECURSIVE JoinLines(_)
JoinLines(ls) == IF ls = <<>> THEN <<>> ELSE Head(ls) \o <<NL>> \o JoinLines(Tail(ls))

\* Texts of 0..MaxLedgerLines lines, the last one with or without its newline.
SampleTexts ==
    LET seqs == UNION {[1..k -> SampleLines] : k \in 0..MaxLedgerLines}
    IN {JoinLines(ls) : ls \in seqs}
       \cup {RStrip(JoinLines(ls)) : ls \in seqs}

InitLedger ==
    /\ ledger \in {NoFile} \cup {File(t) : t \in SampleTexts}
    /\ results = [dir \in {} |-> EmptyDir]
    /\ pc = [p \in Procs |-> "idle"]
    /\ args = [p \in Procs |-> NoArgs]
    /\ frame = [p \in Procs |-> NoFrame]
    /\ raised = [p \in Procs |-> <<>>]
    /\ returned = [p \in Procs |-> None]
    /\ events = [p \in Procs |-> <<>>]
    /\ hist = [p \in Procs |-> NoHist]
    /\ published = <<>>
    /\ started = 0
    /\ succeeded = 0
    /\ all_auto = TRUE
    /\ in_order = TRUE
    /\ AdaptersAtRest

NextLedger == Start(Operator)

SpecLedger == InitLedger /\ [][NextLedger]_vars

(***************************************************************************)
(* upload_video called on its own, on any state of the files it looks at.  *)
(***************************************************************************)
pipeline == <<ledger, results, pc, args, frame, raised, returned, events, hist,
              published, started, succeeded, all_auto, in_order>>

\* No run of the pipeline has been made.
PipelineAtRest ==
    /\ ledger = NoFile
    /\ results = [dir \in {} |-> EmptyDir]
    /\ pc = [p \in Procs |-> "idle"]
    /\ args = [p \in Procs |-> NoArgs]
    /\ frame = [p \in Procs |-> NoFrame]
    /\ raised = [p \in Procs |-> <<>>]
    /\ returned = [p \in Procs |-> None]
    /\ events = [p \in Procs |-> <<>>]
    /\ hist = [p \in Procs |-> NoHist]
    /\ published = <<>>
    /\ started = 0
    /\ succeeded = 0
    /\ all_auto = TRUE
    /\ in_order = TRUE

InitUpload ==
    /\ PipelineAtRest
    /\ enc = NoEnc /\ tr = NoTr /\ fn = NoFn
    \* libs: the packages installed, none, googleapiclient only, or all.
    /\ \E files \in YtFileStates, interactive \in BOOLEAN,
          libs \in {"none", "api", "all"} :
           yt = [NoYt EXCEPT !.files = files, !.before = files,
                             !.interactive = interactive, !.libs = libs]

YtRaise(exc) == yt' = [yt EXCEPT !.pc = "failed", !.raised = exc]

\* A caller enters at one of the entry points; upload_video binds its
\* privacy_status parameter (default "unlisted").
upload_video_call ==
    /\ yt.pc = "idle"
    /\ \E entry \in EntryPoints,
          arg \in {None} \cup {Some(v) : v \in PrivacyChoices} :
           yt' = [yt EXCEPT !.pc = "check", !.entry = entry, !.arg = arg,
                            !.privacy_status =
                                Param(PrivacyPassed(entry, arg), "unlisted")]
    /\ UNCHANGED <<pipeline, enc, tr, fn>>

\* upload_video, lines 120-127: the import and the video file.
upload_video_check ==
    /\ yt.pc = "check"
    /\ IF yt.libs = "none" THEN YtRaise("ImportError")
       ELSE IF VIDEO_FILE \notin DOMAIN yt.files THEN YtRaise("FileNotFoundError")
       ELSE yt' = [yt EXCEPT !.pc = "auth"]
    /\ UNCHANGED <<pipeline, enc, tr, fn>>

\* get_authenticated_service, lines 43-67: imports, setup_credentials_dir(),
\* client_secrets.json.
get_authenticated_service ==
    /\ yt.pc = "auth"
    /\ IF yt.libs # "all" THEN YtRaise("ImportError")
       ELSE LET files == setup_credentials_dir(yt.files)
            IN IF CLIENT_SECRETS_FILE \notin DOMAIN files
               THEN yt' = [yt EXCEPT !.pc = "failed", !.raised = "FileNotFoundError",
                                     !.files = files]
               ELSE yt' = [yt EXCEPT !.pc = "token", !.files = files]
    /\ UNCHANGED <<pipeline, enc, tr, fn>>

\* Lines 69-88: the saved token is loaded; valid credentials are used as they
\* are, expired ones with a refresh token are refreshed, and otherwise
\* run_local_server(port=8888) starts the consent flow, which raises at once
\* when it cannot start (no runnable browser, port taken).
load_token ==
    /\ yt.pc = "token"
    /\ LET credentials == IF TOKEN_FILE \in DOMAIN yt.files
                          THEN yt.files[TOKEN_FILE] ELSE "None"
       IN IF credentials = "valid" THEN yt' = [yt EXCEPT !.pc = "insert"]
          ELSE IF credentials = "expired+refresh_token" THEN
              \E refreshed \in BOOLEAN :
                  IF refreshed THEN yt' = [yt EXCEPT !.pc = "save"]
                  ELSE YtRaise("RefreshError")
          ELSE
              \E flow_started \in BOOLEAN :
                  IF flow_started THEN yt' = [yt EXCEPT !.pc = "consent"]
                  ELSE YtRaise("FlowError")
    /\ UNCHANGED <<pipeline, enc, tr, fn>>

\* run_local_server waits for the browser's redirect: it returns when someone
\* at the browser grants or denies access, and waits as long as nobody does.
run_local_server ==
    /\ yt.pc = "consent"
    /\ yt.interactive
    /\ \E granted \in BOOLEAN :
           IF granted THEN yt' = [yt EXCEPT !.pc = "save"]
           ELSE YtRaise("AccessDeniedError")
    /\ UNCHANGED <<pipeline, enc, tr, fn>>

\* Lines 90-93: the new credentials are saved.
dump_token ==
    /\ yt.pc = "save"
    /\ yt' = [yt EXCEPT !.pc = "insert", !.files = save_token(yt.files)]
    /\ UNCHANGED <<pipeline, enc, tr, fn>>

\* Lines 131-161: the request body carries privacy_status; the resumable
\* upload is set up.
videos_insert ==
    /\ yt.pc = "insert"
    /\ yt' = [yt EXCEPT !.pc = "chunk", !.sent = Some(yt.privacy_status),
                        !.chunks = 0]
    /\ UNCHANGED <<pipeline, enc, tr, fn>>

\* Variant: a chunk whose request met a transport error is requested again.
next_chunk_retries ==
    /\ yt.pc = "chunk"
    /\ \E outcome \in {"status", "response", "HttpError"} :
           CASE outcome = "status" ->
                    /\ yt.chunks < MaxChunks
                    /\ yt' = [yt EXCEPT !.chunks = @ + 1, !.requests = @ + 1,
                                        !.progress = @ + 1]
             [] outcome = "response" ->
                    yt' = [yt EXCEPT !.pc = "done", !.requests = @ + 1,
                               !.video_id = Some(VideoId(1)),
                               !.returned = Some([video_id |-> VideoId(1),
                                                  url |-> VideoUrl(VideoId(1)),
                                                  privacy_status |-> yt.privacy_status])]
             [] outcome = "HttpError" ->
                    /\ yt.errors < MaxChunks
                    /\ yt' = [yt EXCEPT !.requests = @ + 1, !.errors = @ + 1]
    /\ UNCHANGED <<pipeline, enc, tr, fn>>

\* Lines 166-184, one turn of "while response is None": request.next_chunk()
\* is called once. It returns (status, None) for a chunk that is not the last
\* (at most MaxChunks of them: the file is finite), and the progress is
\* printed; it returns (None, response) for the last one, and the link is
\* built from response["id"] and returned; or it raises, and nothing in
\* upload_video catches the exception.
next_chunk ==
    /\ yt.pc = "chunk"
    /\ \E outcome \in {"status", "response", "HttpError"} :
           CASE outcome = "status" ->
                    /\ yt.chunks < MaxChunks
                    /\ yt' = [yt EXCEPT !.chunks = @ + 1, !.requests = @ + 1,
                                        !.progress = @ + 1]
             [] outcome = "response" ->
                    yt' = [yt EXCEPT !.pc = "done", !.requests = @ + 1,
                               !.video_id = Some(VideoId(1)),
                               !.returned = Some([video_id |-> VideoId(1),
                                                  url |-> VideoUrl(VideoId(1)),
                                                  privacy_status |-> yt.privacy_status])]
             [] outcome = "HttpError" ->
                    yt' = [yt EXCEPT !.pc = "failed", !.raised = "HttpError",
                                     !.requests = @ + 1, !.errors = @ + 1]
    /\ UNCHANGED <<pipeline, enc, tr, fn>>

NextUpload ==
    \/ upload_video_call
    \/ upload_video_check
    \/ get_authenticated_service
    \/ load_token
    \/ run_local_server
    \/ dump_token
    \/ videos_insert
    \/ next_chunk

SpecUpload == InitUpload /\ [][NextUpload]_vars

\* The loop of upload_video is a sequential program: as long as it can take a
\* turn it takes one.
SpecUploadFair == SpecUpload /\ WF_vars(next_chunk)

(***************************************************************************)
(* create_video_from_audio called on its own.                              *)
(***************************************************************************)
InitEncode ==
    /\ PipelineAtRest
    /\ yt = NoYt /\ tr = NoTr /\ fn = NoFn
    /\ \E ffmpeg \in BOOLEAN, audio \in BOOLEAN, image \in BOOLEAN,
          paths \in {{"in"}, {"in", OUT_DIR}, {"in", OUT_DIR, "out/video.mp4"},
                     {"in", "in/audio.mp4"}} :
           enc = [NoEnc EXCEPT !.ffmpeg = ffmpeg, !.audio = audio, !.image = image,
                               !.paths = paths, !.before = paths]

EncRaise(exc, message) == enc' = [enc EXCEPT !.pc = "failed", !.raised = <<exc>> \o message]

create_video_from_audio_call ==
    /\ enc.pc = "idle"
    /\ \E output_given \in BOOLEAN :
           enc' = [enc EXCEPT !.pc = "check_ffmpeg", !.output_given = output_given]
    /\ UNCHANGED <<pipeline, yt, tr, fn>>

\* Lines 54-59: shutil.which("ffmpeg").
check_ffmpeg ==
    /\ enc.pc = "check_ffmpeg"
    /\ IF ~enc.ffmpeg THEN EncRaise("RuntimeError", NOT_INSTALLED)
       ELSE enc' = [enc EXCEPT !.pc = "check_inputs"]
    /\ UNCHANGED <<pipeline, yt, tr, fn>>

\* Variant: the output directory is made before the inputs are looked at.
check_inputs_after_mkdir ==
    /\ enc.pc = "check_inputs"
    /\ LET made == enc.paths \cup {Parent(OutputPath(enc.output_given))}
       IN IF ~enc.audio \/ ~enc.image
          THEN enc' = [enc EXCEPT !.pc = "failed", !.checked = TRUE, !.paths = made,
                                  !.raised = <<"FileNotFoundError">>]
          ELSE enc' = [enc EXCEPT !.pc = "Popen", !.checked = TRUE, !.paths = made]
    /\ UNCHANGED <<pipeline, yt, tr, fn>>

\* Lines 61-67: the audio file, then the background image.
check_inputs ==
    /\ enc.pc = "check_inputs"
    /\ IF ~enc.audio \/ ~enc.image
       THEN enc' = [enc EXCEPT !.pc = "failed", !.checked = TRUE,
                               !.raised = <<"FileNotFoundError">>]
       ELSE enc' = [enc EXCEPT !.pc = "mkdir", !.checked = TRUE]
    /\ UNCHANGED <<pipeline, yt, tr, fn>>

\* Lines 69-75: output_path.parent.mkdir(parents=True, exist_ok=True).
mkdir_output_parent ==
    /\ enc.pc = "mkdir"
    /\ enc' = [enc EXCEPT !.pc = "Popen",
                          !.paths = @ \cup {Parent(OutputPath(enc.output_given))}]
    /\ UNCHANGED <<pipeline, yt, tr, fn>>

\* Lines 115-119: subprocess.Popen(cmd): the encoder process starts.
Popen ==
    /\ enc.pc = "Popen"
    /\ enc' = [enc EXCEPT !.pc = "wait", !.popen = @ + 1]
    /\ UNCHANGED <<pipeline, yt, tr, fn>>

\* Lines 121-129: process.wait(); a non-zero return code is raised. The
\* encoder writes the output file (-y); one that fails may leave a part of it.
process_wait ==
    /\ enc.pc = "wait"
    /\ \E returncode \in ReturnCodes, wrote \in BOOLEAN :
           LET out == OutputPath(enc.output_given)
           IN IF returncode # 0
              THEN enc' = [enc EXCEPT !.pc = "failed",
                               !.returncode = Some(returncode),
                               !.raised = <<"RuntimeError">> \o FFmpegError(returncode),
                               !.paths = IF wrote THEN @ \cup {out} ELSE @]
              ELSE /\ wrote
                   /\ enc' = [enc EXCEPT !.pc = "probe", !.returncode = Some(0),
                                         !.paths = @ \cup {out}]
    /\ UNCHANGED <<pipeline, yt, tr, fn>>

\* Lines 131-140: get_audio_duration(output_path) (ffprobe; float() of its
\* output can raise), then the path is returned.
get_audio_duration ==
    /\ enc.pc = "probe"
    /\ \E parsed \in BOOLEAN :
           IF parsed
           THEN enc' = [enc EXCEPT !.pc = "done",
                                   !.returned = Some(OutputPath(enc.output_given))]
           ELSE EncRaise("ValueError", <<>>)
    /\ UNCHANGED <<pipeline, yt, tr, fn>>

NextEncode ==
    \/ create_video_from_audio_call
    \/ check_ffmpeg
    \/ check_inputs
    \/ mkdir_output_parent
    \/ Popen
    \/ process_wait
    \/ get_audio_duration

SpecEncode == InitEncode /\ [][NextEncode]_vars

(***************************************************************************)
(* transcribe called on its own.                                           *)
(***************************************************************************)
InitTranscribe ==
    /\ PipelineAtRest
    /\ yt = NoYt /\ enc = NoEnc /\ fn = NoFn
    /\ \E faster_whisper \in BOOLEAN, openai \in BOOLEAN, audio \in BOOLEAN,
          environment \in {None, Some(""), Some("sk-env")} :
           tr = [NoTr EXCEPT !.faster_whisper = faster_whisper, !.openai = openai,
                             !.audio = audio, !.environment = environment]

TrRaise(exc, message) == tr' = [tr EXCEPT !.pc = "failed", !.raised = <<exc>> \o message]

transcribe_call ==
    /\ tr.pc = "idle"
    /\ \E method \in {"local", "openai", "azure"},
          api_key \in {None, Some(""), Some("sk-arg")} :
           tr' = [tr EXCEPT !.pc = "transcribe", !.method = method,
                            !.api_key = api_key]
    /\ UNCHANGED <<pipeline, yt, enc, fn>>

\* transcribe, lines 366-371: the method selects the engine.
transcribe ==
    /\ tr.pc = "transcribe"
    /\ IF tr.method = "local" THEN tr' = [tr EXCEPT !.pc = "faster_whisper"]
       ELSE IF tr.method = "openai" THEN tr' = [tr EXCEPT !.pc = "openai"]
       ELSE TrRaise("ValueError", <<"Nieznana metoda: ", tr.method,
                                    ". Uzyj 'local' lub 'openai'">>)
    /\ UNCHANGED <<pipeline, yt, enc, fn>>

\* transcribe_with_faster_whisper, lines 126-141: import, audio file, output
\* directory.
faster_whisper_preconditions ==
    /\ tr.pc = "faster_whisper"
    /\ IF ~tr.faster_whisper THEN TrRaise("ImportError", <<>>)
       ELSE IF ~tr.audio THEN TrRaise("FileNotFoundError", <<>>)
       ELSE tr' = [tr EXCEPT !.pc = "engine", !.dir_made = TRUE]
    /\ UNCHANGED <<pipeline, yt, enc, fn>>

\* transcribe_with_openai, lines 284-302: import, key, output directory,
\* client, open(audio_path, "rb").
openai_preconditions ==
    /\ tr.pc = "openai"
    /\ LET api_key == KeyOr(tr.api_key, tr.environment)
       IN IF ~tr.openai THEN TrRaise("ImportError", <<>>)
          ELSE IF api_key = None \/ api_key[1] = "" THEN TrRaise("ValueError", <<>>)
          ELSE IF ~tr.audio
          THEN tr' = [tr EXCEPT !.pc = "failed", !.raised = <<"FileNotFoundError">>,
                                !.dir_made = TRUE, !.key_used = api_key]
          ELSE tr' = [tr EXCEPT !.pc = "engine", !.dir_made = TRUE,
                                !.key_used = api_key]
    /\ UNCHANGED <<pipeline, yt, enc, fn>>

\* The engine is called (model.transcribe / client.audio.transcriptions.create)
\* and the result is built from what it returns.
engine_transcribe ==
    /\ tr.pc = "engine"
    /\ \E answered \in BOOLEAN, raw \in RawSegments, cuda \in BOOLEAN,
          available_ram_gb \in {2, 4} :
           IF ~answered
           THEN tr' = [tr EXCEPT !.pc = "failed", !.raised = <<"EngineError">>,
                                 !.engine_called = TRUE]
           ELSE LET device == detect_device(cuda)[1]
                    settings == get_optimal_settings(device, None, Some(available_ram_gb))
                IN tr' = [tr EXCEPT !.pc = "write", !.engine_called = TRUE,
                              !.raw = raw,
                              !.result = Some(IF tr.method = "local"
                                  THEN LocalResult(raw, "pl", device, settings)
                                  ELSE OpenAIResult(raw, "pl"))]
    /\ UNCHANGED <<pipeline, yt, enc, fn>>

\* The three files are written and the result is returned.
write_artifacts ==
    /\ tr.pc = "write"
    /\ tr' = [tr EXCEPT !.pc = "done", !.files = Some(Artifacts(tr.result[1]))]
    /\ UNCHANGED <<pipeline, yt, enc, fn>>

NextTranscribe ==
    \/ transcribe_call
    \/ transcribe
    \/ faster_whisper_preconditions
    \/ openai_preconditions
    \/ engine_transcribe
    \/ write_artifacts

SpecTranscribe == InitTranscribe /\ [][NextTranscribe]_vars

(***************************************************************************)
(* Two operators: their invocations of run_full_pipeline interleave step by *)
(* step; nothing in the code makes one wait for the other.                 *)
(***************************************************************************)
\* An operator invokes run_full_pipeline without a meeting number.
StartAuto(p) == Start(p) /\ args'[p].meeting_number = None

NextConcurrent ==
    \E p \in Procs :
        \/ StartAuto(p)
        \/ Transcribe(p)
        \/ CreateVideo(p)
        \/ Upload(p)
        \/ AppendLink(p)
        \/ WriteLinkFile(p)

SpecConcurrent == Init /\ [][NextConcurrent]_vars

(***************************************************************************)
(* The helper functions, each called on its own with arguments of its own. *)
(***************************************************************************)
MaxHours == 100
MaxRamGb == 5

\* The devices a caller can ask for.
DeviceArgs == {None, Some("cpu"), Some("cuda")}

\* Lengths of time a recording or a segment can have: whole seconds up to
\* MaxHours hours and more, and a fraction of a second short of a microsecond,
\* or short of the next second by less than a microsecond.
TimestampArgs ==
    {[whole |-> h * 3600 + m * 60 + sec, fraction |-> fraction] :
        h \in {0, 1, 25, MaxHours}, m \in {0, 59}, sec \in {0, 59},
        fraction \in {0, 4, 7000000, 9999994, 9999996}}

InitHelpers ==
    /\ PipelineAtRest
    /\ yt = NoYt /\ enc = NoEnc /\ tr = NoTr
    /\ fn = NoFn

format_timestamp_call ==
    /\ fn = NoFn
    /\ \E seconds \in TimestampArgs :
           fn' = [name |-> "format_timestamp", given |-> seconds,
                  result |-> format_timestamp(seconds)]
    /\ UNCHANGED <<pipeline, yt, enc, tr>>

\* The Advisor as its callers use it: detect_device(), the caller's device
\* or the detected one, then get_optimal_settings for that device. cuda is
\* whether torch finds a GPU, installed whether psutil can be imported,
\* available the memory the host has free, in GB.
advisor_call ==
    /\ fn = NoFn
    /\ \E requested \in DeviceArgs, cuda \in BOOLEAN, installed \in BOOLEAN,
          available \in 0..MaxRamGb,
          available_ram_gb \in {None} \cup {Some(gb) : gb \in 0..MaxRamGb} :
           LET device == NameOr(requested, detect_device(cuda)[1])
               psutil == IF installed THEN Some(available) ELSE None
           IN fn' = [name |-> "advisor",
                     given |-> [requested |-> requested, cuda |-> cuda,
                                installed |-> installed, available |-> available,
                                available_ram_gb |-> available_ram_gb],
                     result |-> [device |-> device,
                                 settings |-> get_optimal_settings(
                                     device, available_ram_gb, psutil)]]
    /\ UNCHANGED <<pipeline, yt, enc, tr>>

\* What psutil can be: not installed, or reporting some memory available.
PsutilStates == {None} \cup {Some(gb) : gb \in 0..MaxRamGb}

\* transcribe_with_faster_whisper called with any of its settings left out,
\* on any host.
transcribe_with_faster_whisper_call ==
    /\ fn = NoFn
    /\ \E device \in DeviceArgs, model_size \in {None, Some("tiny"), Some("large-v3")},
          compute_type \in {None, Some("int8"), Some("float32")},
          batch_size \in {None, Some(0), Some(1), Some(16)},
          cuda \in BOOLEAN, psutil \in PsutilStates :
           fn' = [name |-> "transcribe_with_faster_whisper",
                  given |-> [device |-> device, model_size |-> model_size,
                             compute_type |-> compute_type, batch_size |-> batch_size,
                             cuda |-> cuda, psutil |-> psutil],
                  result |-> EngineSettings(device, model_size, compute_type,
                                            batch_size, cuda, psutil)]
    /\ UNCHANGED <<pipeline, yt, enc, tr>>

\* The title and the description the two commands that publish hand to
\* upload_video: run_full_pipeline (lines 131-132) and cmd_upload, which reads
\* highlights.md next to the video when it exists. highlights is that file in
\* the directory of the video.
publishing_texts ==
    /\ fn = NoFn
    /\ \E entry \in {"run_full_pipeline", "cmd_upload"}, meeting_number \in {1, 12},
          date \in {DATE_A, DATE_B},
          highlights \in {NoFile, File(<<>>), File(<<"h", "i">>),
                          File(<<"-", SP, "a", NL, "-", SP, "b">>)} :
           fn' = [name |-> "publishing",
                  given |-> [entry |-> entry, meeting_number |-> meeting_number,
                             date |-> date, highlights |-> highlights],
                  result |->
                      IF entry = "run_full_pipeline"
                      THEN [title |-> Title(meeting_number, date),
                            description |->
                                generate_meeting_description(date, <<>>, <<>>, <<>>)]
                      ELSE [title |-> <<"S", "p", "o", "t", "k", "a", "n", "i", "e", " ",
                                        "S", "K", "N", "W", "P", "L", " ">> \o date,
                            description |->
                                generate_meeting_description(
                                    date, <<>>,
                                    IF highlights = NoFile THEN <<>> ELSE highlights[1],
                                    <<>>)]]
    /\ UNCHANGED <<pipeline, yt, enc, tr>>

\* The transcription stage of run_full_pipeline (line 110), on any host.
run_full_pipeline_transcribe ==
    /\ fn = NoFn
    /\ \E model \in {None, Some("tiny"), Some("medium")}, device \in DeviceArgs,
          cuda \in BOOLEAN, psutil \in PsutilStates :
           LET kwargs == transcript_kwargs(model, device)
           IN fn' = [name |-> "run_full_pipeline",
                     given |-> [model |-> model, device |-> device, cuda |-> cuda,
                                psutil |-> psutil],
                     result |-> EngineSettings(kwargs.device, kwargs.model_size,
                                               kwargs.compute_type, kwargs.batch_size,
                                               cuda, psutil)]
    /\ UNCHANGED <<pipeline, yt, enc, tr>>

NextHelpers ==
    \/ run_full_pipeline_transcribe
    \/ publishing_texts
    \/ format_timestamp_call
    \/ advisor_call
    \/ transcribe_with_faster_whisper_call

SpecHelpers == InitHelpers /\ [][NextHelpers]_vars

(***************************************************************************)
(* Properties of the ledger.                                               *)
(***************************************************************************)
Op == Operator

\* C1: starting from an absent or empty ledger, after N successful runs made
\* one at a time with no explicit meeting number, the ledger holds exactly N
\* entries, their numbers strictly increase in file order, and the first is 1.
C1_LedgerCountsRuns ==
    (Idle(Op) /\ all_auto) =>
        LET ns == EntryNumbers(ledger)
        IN /\ Len(ns) = succeeded
           /\ StrictlyIncreasing(ns)
           /\ (ns # <<>> => ns[1] = Some(1))

C1_Witness ==
    /\ Idle(Op) /\ all_auto
    /\ succeeded >= 2
    /\ Len(EntryNumbers(ledger)) >= 2

C3_LedgerOnlyAfterUpload ==
    [][/\ (ledger' # ledger =>
              /\ Len(events[Op]) >= 6
              /\ events[Op][6] = <<"return", "upload">>
              /\ frame[Op].youtube_url # None)
       /\ (pc'[Op] = "failed" => ledger' = hist'[Op].ledger)]_vars

C3_Witness ==
    /\ pc[Op] = "failed"
    /\ raised[Op][1] = "upload"
    /\ EntryNumbers(ledger) # <<>>

(***************************************************************************)
(* Properties of one run.                                                  *)
(***************************************************************************)
StageOrder == <<"transcription", "encoding", "upload", "append">>

\* C4: the stages are invoked in the order transcription, encoding, upload,
\* ledger append, each at most once per run, each only after the previous
\* one returned, and every call has ended before the next call begins.
C4_StagesInOrder ==
    LET ev == events[Op]
    IN /\ Len(ev) <= 2 * Len(StageOrder)
       /\ \A i \in 1..Len(ev) :
            /\ ev[i][2] = StageOrder[(i + 1) \div 2]
            /\ (i % 2 = 1) => (ev[i][1] = "call" /\ i < Len(ev))
            /\ (i % 2 = 0) => (ev[i][1] = "return"
                               \/ (ev[i][1] = "raise" /\ i = Len(ev)))

C4_Witness ==
    /\ pc[Op] = "done"
    /\ Len(events[Op]) = 8
    /\ started >= 2

\* C5: when transcription, encoding or upload raises, no later stage is
\* invoked, the stage is not retried, the exception leaves run_full_pipeline
\* (it is the run's outcome), and the run never reaches Done.
C5_FailureIsFinal ==
    [][/\ (pc[Op] = "failed" /\ started' = started) =>
              UNCHANGED <<pc, events, raised, returned, ledger, results>>
       /\ \A i \in 1..Len(events'[Op]) :
              events'[Op][i][1] = "raise" =>
                  /\ i = Len(events'[Op])
                  /\ pc'[Op] = "failed"
                  /\ raised'[Op] # <<>>
                  /\ raised'[Op][1] = events'[Op][i][2]
                  /\ returned'[Op] = None]_vars

C5_Witness ==
    /\ pc[Op] = "failed"
    /\ raised[Op] = <<"encoding", "RuntimeError">>
    /\ started = MaxRuns

\* C6: when the run fails at a stage, what the completed stages wrote is on
\* disk as they wrote it (the three transcript files after an encoding
\* failure, these and the video after an upload failure), and the ledger and
\* the run's youtube_link.txt are as they were when the run started.
C6_ArtifactsKept ==
    pc[Op] = "failed" =>
        LET names == {w[1] : w \in hist[Op].wrote}
            stem == args[Op].stem
        IN /\ \A w \in hist[Op].wrote :
                  ReadFile(results, output_dir(Op), w[1]) = File(w[2])
           /\ raised[Op][1] \in {"encoding", "upload"} =>
                  {JsonName(stem), TxtName(stem), PlainName(stem)} \subseteq names
           /\ raised[Op][1] = "upload" => VideoName(stem) \in names
           /\ ledger = hist[Op].ledger
           /\ ReadFile(results, output_dir(Op), LinkName) = hist[Op].link

C6_Witness ==
    /\ pc[Op] = "failed"
    /\ raised[Op][1] = "encoding"
    /\ hist[Op].link # NoFile
    /\ Cardinality(hist[Op].wrote) = 3

\* C7: an explicit meeting number, whatever integer it is, is the number the
\* run uses (directory, title, ledger entry, summary) and no number is derived
\* from the ledger; an explicit date is used instead of the current date.
C7_ExplicitNumberUsed ==
    pc[Op] # "idle" =>
        /\ args[Op].meeting_number # None =>
               frame[Op].meeting_number = args[Op].meeting_number[1]
        /\ args[Op].date # None => frame[Op].date = args[Op].date[1]

\* C9: a run that reaches Done has appended exactly the line "<n> - <url>" to
\* the ledger, has written exactly <url> into youtube_link.txt in its output
\* directory, and returns a summary whose number and url are that n and url
\* (the url the upload returned) and whose video path, transcript path and
\* output dir lie in meeting_<n>_<date>.
C9_DoneRun ==
    pc[Op] = "done" =>
        /\ returned[Op] # None
        /\ frame[Op].youtube_url # None
        /\ LET sm == returned[Op][1]
               n == sm.meeting_number
               url == sm.youtube_url
               dir == MEETING_ \o IntStr(n) \o <<"_">> \o frame[Op].date
           IN /\ n = frame[Op].meeting_number
              /\ url = frame[Op].youtube_url[1]
              /\ published # <<>> /\ url = published[Len(published)]
              /\ \E v \in VideoIds : url = WATCH_URL \o v
              /\ ledger = File(Text(hist[Op].ledger) \o IntStr(n)
                               \o <<" ", "-", " ">> \o url \o <<"\n">>)
              /\ ReadFile(results, dir, LinkName) = File(url)
              /\ sm.output_dir = dir
              /\ sm.video_path = <<dir, VideoName(args[Op].stem)>>
              /\ sm.transcript_path = <<dir, TxtName(args[Op].stem)>>
              /\ ReadFile(results, dir, sm.video_path[2]) # NoFile
              /\ ReadFile(results, dir, sm.transcript_path[2]) # NoFile

C9_Witness ==
    /\ pc[Op] = "done"
    /\ returned[Op] # None
    /\ Text(hist[Op].ledger) # <<>>
    /\ args[Op].date # None

CountNL(text) == Cardinality({i \in 1..Len(text) : text[i] = NL})

MaxEntryNumber == 20

\* line is "<n> - <url>", the url non-empty and free of whitespace.
IsEntry(line, n) ==
    LET head == IntStr(n) \o <<" ", "-", " ">>
    IN /\ Len(line) > Len(head)
       /\ SubSeq(line, 1, Len(head)) = head
       /\ \A i \in (Len(head) + 1)..Len(line) : line[i] \notin Whitespace

\* C8: with no explicit meeting number the run is numbered 1 when the ledger
\* is absent or empty, and n + 1 when the ledger's last line is "<n> - <url>",
\* whatever the earlier lines contain.
C8_NextNumber ==
    (pc[Op] = "transcribe" /\ args[Op].meeting_number = None) =>
        LET file == hist[Op].ledger
            ls == Lines(Text(file))
        IN /\ (file = NoFile \/ Text(file) = <<>>) => frame[Op].meeting_number = 1
           /\ ls # <<>> =>
                  \A n \in 0..MaxEntryNumber :
                      IsEntry(ls[Len(ls)], n) => frame[Op].meeting_number = n + 1

C8_Witness ==
    /\ pc[Op] = "transcribe" /\ args[Op].meeting_number = None
    /\ Lines(Text(hist[Op].ledger)) = <<<<"x">>, IntStr(7) \o SEP \o EXAMPLE_URL>>
    /\ frame[Op].meeting_number = 8

(***************************************************************************)
(* Properties of what is published and what is recorded.                   *)
(***************************************************************************)
\* The url each ledger line carries (what follows the first " - ").
LedgerUrls(file) ==
    LET ls == Lines(Text(file))
    IN [i \in 1..Len(ls) |->
           IF Contains(ls[i], SEP)
           THEN SubSeq(ls[i], Find(ls[i], SEP) + Len(SEP), Len(ls[i]))
           ELSE <<>>]

\* C11: whenever no command is running, every video published so far, by the
\* full pipeline or by the upload command, has a ledger entry carrying its
\* url: the urls of the ledger's entries are the published urls, in
\* publication order.
C11_LedgerListsPublished == Idle(Op) => LedgerUrls(ledger) = published

\* The line the run appended for its url is the ledger's last line.
HasEntry(p) ==
    /\ frame[p].youtube_url # None
    /\ ledger = append_youtube_link(hist[p].ledger, frame[p].meeting_number,
                                    frame[p].youtube_url[1])

\* youtube_link.txt in the run's directory holds the run's url.
HasMarker(p) ==
    /\ frame[p].youtube_url # None
    /\ ReadFile(results, output_dir(p), LinkName) = File(frame[p].youtube_url[1])

C13_UnlistedByDefault ==
    yt.sent # None =>
        /\ yt.arg = None => yt.sent = Some("unlisted")
        /\ yt.sent = Some("public") => yt.arg = Some("public")
        /\ yt.arg # None => yt.sent = yt.arg

C13_Witness ==
    /\ yt.pc = "done"
    /\ yt.entry = "meeting.py upload"
    /\ yt.arg = None
    /\ yt.sent = Some("unlisted")

\* C16: when upload_video is called with no saved token and nobody to give
\* consent in a browser, it does not wait for consent and it does not go on to
\* the upload (it can only end with an error).
C16_FailsWithoutCredential ==
    (yt.pc # "idle" /\ TOKEN_FILE \notin DOMAIN yt.before /\ ~yt.interactive) =>
        yt.pc \notin {"consent", "save", "insert", "chunk", "done"}

\* The files outside the credentials directory are as they were at the call.
OthersUntouched(before, files) ==
    \A n \in (DOMAIN before \cup DOMAIN files) \ {CREDENTIALS_DIR, GITIGNORE, TOKEN_FILE} :
        n \in DOMAIN before /\ n \in DOMAIN files /\ files[n] = before[n]

\* C17, as stated: a call of upload_video that returned has changed no file.
C17_NoFileChanged == yt.pc = "done" => yt.files = yt.before

\* C17, amended: a call of upload_video that returned has left the ledger,
\* the marker file and every file outside the credentials directory as they
\* were; in the credentials directory it has created .gitignore (and the
\* directory) if it was absent and has rewritten youtube_token.pickle exactly
\* when the saved credentials were absent or not valid.
C17_OnlyCredentialFiles ==
    yt.pc = "done" =>
        /\ OthersUntouched(yt.before, yt.files)
        /\ yt.files[LEDGER_FILE] = yt.before[LEDGER_FILE]
        /\ yt.files[MARKER_FILE] = yt.before[MARKER_FILE]
        /\ GITIGNORE \in DOMAIN yt.before =>
               yt.files[GITIGNORE] = yt.before[GITIGNORE]
        /\ yt.files[TOKEN_FILE] = "valid"
        /\ (yt.files = yt.before) <=>
               /\ GITIGNORE \in DOMAIN yt.before
               /\ TOKEN_FILE \in DOMAIN yt.before
               /\ yt.before[TOKEN_FILE] = "valid"

C17_Witness ==
    /\ yt.pc = "done"
    /\ TOKEN_FILE \in DOMAIN yt.before
    /\ yt.before[TOKEN_FILE] = "expired+refresh_token"
    /\ yt.files # yt.before

(***************************************************************************)
(* Properties of the encoder.                                              *)
(***************************************************************************)
Ended(a) == a.pc \in {"done", "failed"}

\* C14: when the audio file or the background image does not exist,
\* create_video_from_audio starts no encoder process and creates neither the
\* output file nor its directory, and the call ends with an error, which is
\* FileNotFoundError whenever ffmpeg is installed.
C14_MissingInputStartsNothing ==
    (~enc.audio \/ ~enc.image) =>
        /\ enc.popen = 0
        /\ enc.paths = enc.before
        /\ enc.pc \in {"idle", "check_ffmpeg", "check_inputs", "failed"}
        /\ enc.returned = None
        /\ (enc.pc = "failed" /\ enc.ffmpeg) => enc.raised = <<"FileNotFoundError">>

C14_Witness ==
    /\ enc.pc = "failed"
    /\ enc.audio /\ ~enc.image /\ enc.ffmpeg
    /\ enc.output_given
    /\ OUT_DIR \notin enc.paths
    /\ enc.raised = <<"FileNotFoundError">>

\* C15: create_video_from_audio returns a path only after the encoder process
\* exited with code 0; after any other exit code it raises an error whose
\* message ends with that code; and when ffmpeg is not installed it raises
\* the not-installed error without having looked at the inputs or started a
\* process.
C15_ExitCodeDecides ==
    /\ enc.returned # None => (enc.returncode = Some(0) /\ enc.popen = 1)
    /\ (enc.returncode # None /\ enc.returncode # Some(0)) =>
           /\ enc.pc = "failed"
           /\ enc.returned = None
           /\ enc.raised[1] = "RuntimeError"
           /\ PyInt(SubSeq(enc.raised, 3, Len(enc.raised))) = enc.returncode
    /\ (~enc.ffmpeg /\ enc.pc # "idle") =>
           /\ ~enc.checked
           /\ enc.popen = 0
           /\ enc.pc = "failed" => enc.raised = <<"RuntimeError">> \o NOT_INSTALLED
           /\ enc.pc \in {"check_ffmpeg", "failed"}

C15_Witness ==
    /\ enc.pc = "failed"
    /\ enc.returncode = Some(-MaxReturnCode)
    /\ enc.raised = <<"RuntimeError">> \o FFmpegError(-MaxReturnCode)

(***************************************************************************)
(* Properties of the transcription adapter.                                *)
(***************************************************************************)
NoKey(key) == key = None \/ key[1] = ""

\* C18: transcribe rejects an unmet precondition before the engine is called
\* and before any of the three files is written: a missing audio file gives
\* FileNotFoundError with either engine (the engine's package being installed
\* and, for the remote engine, a key being given), the remote engine with no
\* key in the argument nor in OPENAI_API_KEY gives ValueError, a key given as
\* argument is the one used whatever the environment holds, and a method
\* other than "local" and "openai" gives a ValueError that names the method.
C18_PreconditionsRejected ==
    LET past == tr.pc \notin {"idle", "transcribe", "faster_whisper", "openai"}
        rejected(exc) == /\ tr.pc = "failed" /\ tr.raised[1] = exc
                         /\ ~tr.engine_called /\ tr.files = None
    IN /\ ~tr.engine_called => (tr.files = None /\ tr.result = None)
       /\ (past /\ tr.method = "local" /\ tr.faster_whisper /\ ~tr.audio) =>
              rejected("FileNotFoundError")
       /\ (past /\ tr.method = "openai" /\ tr.openai /\ ~tr.audio
           /\ ~(NoKey(tr.api_key) /\ NoKey(tr.environment))) =>
              rejected("FileNotFoundError")
       /\ (past /\ tr.method = "openai" /\ tr.openai
           /\ NoKey(tr.api_key) /\ NoKey(tr.environment)) =>
              rejected("ValueError")
       /\ tr.key_used # None =>
              tr.key_used = (IF NoKey(tr.api_key) THEN tr.environment ELSE tr.api_key)
       /\ (tr.pc # "idle" /\ tr.pc # "transcribe"
           /\ tr.method \notin {"local", "openai"}) =>
              /\ rejected("ValueError")
              /\ \E i \in 2..Len(tr.raised) : tr.raised[i] = tr.method
              /\ ~tr.dir_made

C18_Witness ==
    /\ tr.pc = "failed"
    /\ tr.method = "openai"
    /\ tr.api_key = Some("sk-arg") /\ tr.environment = Some("sk-env")
    /\ ~tr.audio
    /\ tr.key_used = Some("sk-arg")
    /\ tr.raised = <<"FileNotFoundError">>

\* C19: whichever engine ran, the result transcribe returns has the same
\* fields: the result of a "local" call and of an "openai" call for the same
\* recording have the same field names, the engine's configuration (model,
\* device, compute_type) among them, and their segments have the same fields.
C19_SameShape ==
    tr.pc = "done" =>
        LET local == LocalResult(tr.raw, "pl", "cpu", get_optimal_settings("cpu", None, Some(4)))
            remote == OpenAIResult(tr.raw, "pl")
        IN /\ DOMAIN local = DOMAIN remote
           /\ DOMAIN tr.result[1] = DOMAIN local
           /\ {"model", "device", "compute_type"} \subseteq DOMAIN tr.result[1]
           /\ \A i \in 1..Len(tr.raw) :
                  DOMAIN local.segments[i] = DOMAIN remote.segments[i]

\* The (start_formatted, text) pairs of a list of segments.
Pairs(segments) ==
    [i \in 1..Len(segments) |-> <<segments[i].start_formatted, segments[i].text>>]

\* C20: the timestamped text file written from a result determines the
\* result's list of (start_formatted, text) pairs, so that re-parsing the file
\* gives back that list: no result the engine can return with other pairs is
\* written to the same text, whatever the segment texts are (empty, with line
\* breaks, with a "[[HH:MM:SS]]" line).
C20_TextDeterminesPairs ==
    tr.pc = "done" =>
        \A raw \in RawSegments :
            TimestampedText(TranscriptSegments(raw)) = tr.files[1].txt =>
                Pairs(TranscriptSegments(raw)) = Pairs(tr.result[1].segments)

(***************************************************************************)
(* Properties of the helper functions.                                     *)
(***************************************************************************)
\* floor(s) of a float s >= 0.
Floor(seconds) == seconds.whole

\* C21: format_timestamp(s), for any non-negative number of seconds s, renders
\* floor(s) as HH:MM:SS: hours = floor(s) div 3600, not reduced modulo 24
\* (90000 seconds give "25:00:00"), minutes = (floor(s) mod 3600) div 60,
\* seconds = floor(s) mod 60, each padded with zeros to at least two digits.
C21_FloorRendered ==
    fn.name = "format_timestamp" =>
        LET whole == Floor(fn.given)
            two(n) == IF n < 10 THEN <<"0">> \o NatStr(n) ELSE NatStr(n)
        IN fn.result = two(whole \div 3600) \o <<":">> \o two((whole % 3600) \div 60)
                           \o <<":">> \o two(whole % 60)

\* C22: the Advisor returns the GPU profile (float16, the higher model tier,
\* batch size 8) whenever a GPU is present and the caller has not asked for the
\* CPU, and otherwise a CPU profile that depends on the memory available: batch
\* size 1 with less than 4 GB available, batch size 8 with at least 4 GB.
C22_ProfileByHardware ==
    fn.name = "advisor" =>
        IF fn.given.cuda /\ fn.given.requested # Some("cpu")
        THEN /\ fn.result.settings.compute_type = "float16"
             /\ fn.result.settings.model_size = "medium"
             /\ fn.result.settings.batch_size = 8
        ELSE /\ fn.result.settings.compute_type = "int8"
             /\ fn.result.settings.batch_size =
                    IF fn.given.available < 4 THEN 1 ELSE 8

\* C23: in transcribe_with_faster_whisper each of device, model size, precision
\* and batch size is decided on its own: the caller's value is used whenever
\* one was given, and the Advisor's recommendation for the resolved device is
\* used for exactly the settings the caller left out.
C23_FieldByField ==
    fn.name = "transcribe_with_faster_whisper" =>
        LET given == fn.given
            used == fn.result
            advice == get_optimal_settings(used.device, None, given.psutil)
        IN /\ used.device = IF given.device # None THEN given.device[1]
                            ELSE IF given.cuda THEN "cuda" ELSE "cpu"
           /\ used.model_size = IF given.model_size # None THEN given.model_size[1]
                                ELSE advice.model_size
           /\ used.compute_type = IF given.compute_type # None
                                  THEN given.compute_type[1] ELSE advice.compute_type
           /\ used.batch_size = IF given.batch_size # None THEN given.batch_size[1]
                                ELSE advice.batch_size

\* A caller on a host with a GPU asked for the CPU and a batch size of 16 and
\* left the precision out: the CPU's precision and the caller's batch size.
C23_Witness ==
    /\ fn.name = "transcribe_with_faster_whisper"
    /\ fn.given.cuda
    /\ fn.given.device = Some("cpu")
    /\ fn.given.model_size = None
    /\ fn.given.compute_type = None
    /\ fn.given.batch_size = Some(16)
    /\ fn.result.compute_type = "int8"
    /\ fn.result.model_size = "small"
    /\ fn.result.batch_size = 16

(***************************************************************************)
(* Properties of runs made again, and of runs made at the same time.       *)
(***************************************************************************)
\* C24: making the run's output directory is idempotent: when run_full_pipeline
\* starts for a meeting number and date whose directory exists already (a
\* failed run made again), the start does not fail, the directory
\* meeting_<n>_<date> is there once, and every file that was in it, and in any
\* other directory, is there unchanged.
C24_MkdirIdempotent ==
    [][(pc[Op] # "transcribe" /\ pc'[Op] = "transcribe") =>
          LET dir == OutputDirName(frame'[Op].meeting_number, frame'[Op].date)
          IN /\ raised'[Op] = <<>>
             /\ DOMAIN results' = DOMAIN results \cup {dir}
             /\ \A d \in DOMAIN results : results'[d] = results[d]]_vars

\* A run has just started in a directory that holds the files of an earlier
\* run, which published nothing.
C24_Witness ==
    /\ pc[Op] = "transcribe"
    /\ started = 2
    /\ ledger = NoFile
    /\ hist[Op].wrote = {}
    /\ results[output_dir(Op)] # EmptyDir

\* C25: when the ledger's last line is malformed (it is not "<integer> - <url>")
\* get_next_meeting_number returns the ledger's number of lines plus one: the
\* run starts, raising nothing and reporting nothing. (The number returned can
\* then equal or be lower than a number the ledger holds: C25_Witness.)
C25_FallbackIsLineCount ==
    (pc[Op] = "transcribe" /\ args[Op].meeting_number = None) =>
        LET ls == Lines(Strip(Text(hist[Op].ledger)))
            malformed(line) ==
                \A n \in 0..MaxEntryNumber : ~IsPrefix(IntStr(n) \o SEP, line)
        IN (ls # <<>> /\ malformed(ls[Len(ls)])) =>
               /\ frame[Op].meeting_number = Len(ls) + 1
               /\ raised[Op] = <<>>
               /\ events[Op] = <<>>

\* The ledger holds entry 3 and then a line that is no entry: the run is
\* numbered 3 again.
C25_Witness ==
    /\ pc[Op] = "transcribe" /\ args[Op].meeting_number = None
    /\ Lines(Text(hist[Op].ledger)) = <<IntStr(3) \o SEP \o VideoUrl(VideoId(1)), <<"x">>>>
    /\ frame[Op].meeting_number = 3
    /\ raised[Op] = <<>>

\* The ledger's lines that carry the number n.
EntriesNumbered(n, file) ==
    {i \in 1..Len(EntryNumbers(file)) : EntryNumbers(file)[i] = Some(n)}

\* C26: when two runs without a meeting number both start before either
\* appends to the ledger (both read the same ledger), they resolve the same
\* number and, for the same date, the same output directory; once both are
\* done the ledger holds two entries with that number.
C26_RaceSharesNumber ==
    \A p, q \in Procs :
        (/\ p # q
         /\ pc[p] # "idle" /\ pc[q] # "idle"
         /\ args[p].meeting_number = None /\ args[q].meeting_number = None
         /\ hist[p].ledger = hist[q].ledger) =>
            /\ frame[p].meeting_number = frame[q].meeting_number
            /\ frame[p].date = frame[q].date => output_dir(p) = output_dir(q)
            /\ (pc[p] = "done" /\ pc[q] = "done") =>
                   Cardinality(EntriesNumbered(frame[p].meeting_number, ledger)) >= 2

\* Both runs started on the empty ledger and are done: two entries numbered 1.
C26_Witness ==
    /\ \A p \in Procs : /\ pc[p] = "done"
                         /\ args[p].meeting_number = None
                         /\ hist[p].ledger = NoFile
                         /\ frame[p].meeting_number = 1
    /\ EntriesNumbered(1, ledger) = {1, 2}

\* C27: a run that failed (at transcription, encoding or upload) has used up no
\* number: the ledger is as the run found it, and the same invocation made
\* again without a meeting number for the same date resolves the same number
\* and the same output directory, and starts at the transcription again with
\* no stage behind it, whatever files the failed run left.
C27_FailedRunRepeats ==
    [][(/\ pc[Op] = "failed"
        /\ pc'[Op] \notin {"failed", "idle"}
        /\ args[Op].meeting_number = None
        /\ args'[Op].meeting_number = None
        /\ frame'[Op].date = frame[Op].date) =>
          /\ ledger = hist[Op].ledger
          /\ frame'[Op].meeting_number = frame[Op].meeting_number
          /\ OutputDirName(frame'[Op].meeting_number, frame'[Op].date) = output_dir(Op)
          /\ pc'[Op] = "transcribe"
          /\ events'[Op] = <<>>]_vars

\* The run made again after an upload failed: it is at the transcription, with
\* the number 1 again, and the failed run's video is in its directory.
C27_Witness ==
    /\ pc[Op] = "transcribe"
    /\ started = 2
    /\ args[Op].meeting_number = None
    /\ frame[Op].meeting_number = 1
    /\ ledger = NoFile
    /\ published = <<>>
    /\ ReadFile(results, output_dir(Op), VideoName(args[Op].stem)) = File(<<"mp4", args[Op].stem>>)

(***************************************************************************)
(* Properties of the chunk loop of upload_video.                           *)
(***************************************************************************)
\* What holds of the loop in every state of a call.
ChunkLoopInvariant ==
    \* every chunk that came back with a status was reported
    /\ yt.progress = yt.chunks
    \* chunks are requested one after another until one call ends the loop
    /\ yt.requests = yt.chunks + (IF yt.video_id # None \/ yt.errors > 0 THEN 1 ELSE 0)
    \* a transport error ends the call: the chunk is not requested again
    /\ yt.errors > 0 => (yt.pc = "failed" /\ yt.raised = "HttpError" /\ yt.errors = 1)
    \* a link is returned only after the final response, with its identifier
    /\ yt.returned # None =>
           /\ yt.pc = "done"
           /\ yt.video_id # None
           /\ yt.returned[1].url = WATCH_URL \o yt.video_id[1]
    /\ yt.pc = "done" => yt.returned # None

\* C28: upload_video requests chunks one after another until the API returns
\* the final response, reports progress after every chunk that carries a
\* status, returns the link only after the final response and builds its url
\* from that response's video identifier, and does not request a chunk again
\* after a transport error, which ends the call; and the call, once in the
\* loop, ends when the API returns its final response or raises.
C28_ChunkLoop ==
    /\ []ChunkLoopInvariant
    /\ (yt.pc = "chunk") ~> (yt.pc \in {"done", "failed"})

\* The call returned a link after MaxChunks chunks with a status and the final
\* one.
C28_Witness ==
    /\ yt.pc = "done"
    /\ yt.progress = MaxChunks
    /\ yt.requests = MaxChunks + 1
    /\ yt.returned # None
    /\ yt.returned[1].url = VideoUrl(VideoId(1))

(***************************************************************************)
(* Properties of what run_full_pipeline hands to the stages.               *)
(***************************************************************************)
\* C29: at the upload run_full_pipeline's title contains the run's meeting
\* number and the run's date, and its description comes from the description
\* template and includes the highlights text whenever a highlights document
\* exists in the run's output directory.
C29_TitleAndDescription ==
    (fn.name = "publishing" /\ fn.given.entry = "run_full_pipeline") =>
        /\ Contains(fn.result.title, IntStr(fn.given.meeting_number))
        /\ Contains(fn.result.title, fn.given.date)
        /\ Contains(fn.result.description, <<"---">>)
        /\ fn.given.highlights # NoFile =>
               Contains(fn.result.description, fn.given.highlights[1])

\* C30: at the transcription run_full_pipeline's engine settings are: the
\* model is the caller's (large-v3 when none is given), never the Advisor's;
\* with the device "cuda" given the precision is float16 and the batch size 16;
\* with "cpu" given or no device given they are the Advisor's for the resolved
\* device; and batched inference is used exactly when the batch size is
\* greater than 1.
C30_PipelineSettings ==
    fn.name = "run_full_pipeline" =>
        LET given == fn.given
            used == fn.result
            resolved == IF given.device # None THEN given.device[1]
                        ELSE IF given.cuda THEN "cuda" ELSE "cpu"
            advice == get_optimal_settings(resolved, None, given.psutil)
        IN /\ used.model_size = IF given.model = None THEN "large-v3" ELSE given.model[1]
           /\ used.device = resolved
           /\ given.device = Some("cuda") =>
                  (used.compute_type = "float16" /\ used.batch_size = 16)
           /\ given.device # Some("cuda") =>
                  /\ used.compute_type = advice.compute_type
                  /\ used.batch_size = advice.batch_size
           /\ used.batched <=> used.batch_size > 1

\* No device given on a host with a GPU and the model left out: large-v3 with
\* the Advisor's float16 and batch size 8, batched.
C30_Witness ==
    /\ fn.name = "run_full_pipeline"
    /\ fn.given.model = None /\ fn.given.device = None /\ fn.given.cuda
    /\ fn.result.model_size = "large-v3"
    /\ fn.result.device = "cuda"
    /\ fn.result.compute_type = "float16"
    /\ fn.result.batch_size = 8
    /\ fn.result.batched

====
